---- MODULE Spec2Model ----
(***************************************************************************)
(* Model of the steelseries-sync core (src-tauri/src): the sync engine     *)
(* (push_to_remote, pull_from_remote, sync, should_suppress_push), the     *)
(* safety guard, the backup manager, the Folder provider, the debounced    *)
(* watcher loop with its callback, the inbound poller and the commands.    *)
(*                                                                         *)
(* Three callers run engine operations concurrently: the watcher thread    *)
(* ("watcher"), the poller task ("poller") and a command issued from the   *)
(* shell ("user").  The environment is the Engine (SteelSeries GG), which  *)
(* starts, stops, locks and writes the local database, other devices that  *)
(* push to the shared remote, and the clock.                               *)
(*                                                                         *)
(* Conventions.  Option<T> is a sequence: None is <<>>, Some(x) is <<x>>.  *)
(* Byte buffers are sequences of byte values.  Wall-clock instants are     *)
(* ticks of `now` (one tick is one second, the resolution of a backup's    *)
(* name).  The backup directory is the sequence of its sub-directories in  *)
(* increasing modification time.  The watcher's channel is the set of      *)
(* writers with a message pending: the debounce loop takes every pending   *)
(* message before recv_timeout can time out, and each one only resets      *)
(* last_event.  last_event holds the age of the last event, counted in     *)
(* recv_timeout periods (500 ms).                                          *)
(***************************************************************************)
EXTENDS Integers, Sequences, FiniteSets, TLC

\* ------------------------------------------------------------------ bounds
MaxTime == 1
MaxBackups == 1
DebounceTicks == 2

\* ------------------------------------------------------------ basic values
None == <<>>
Some(x) == <<x>>

Procs == {"watcher", "poller", "user"}

ThisDevice == "this-pc"
OtherDevice == "other-pc"

\* const SQLITE_MAGIC: &[u8] = b"SQLite format 3\0"
SQLITE_MAGIC == <<83, 81, 76, 105, 116, 101, 32, 102, 111, 114, 109, 97, 116, 32, 51, 0>>

\* A header check that accepts every buffer.
accept_any_header(data) == TRUE

\* A header check that takes the 16 bytes of the magic alone for a database.
validate_sqlite_header_magic_alone(data) ==
    /\ Len(data) >= Len(SQLITE_MAGIC)
    /\ SubSeq(data, 1, Len(SQLITE_MAGIC)) = SQLITE_MAGIC

\* Validate that a buffer looks like a SQLite database.
validate_sqlite_header(data) ==
    /\ Len(data) > Len(SQLITE_MAGIC)
    /\ SubSeq(data, 1, Len(SQLITE_MAGIC)) = SQLITE_MAGIC

\* Contents the Engine produces, contents other devices may leave on the
\* remote (b"not a database" among them), and a sidecar's bytes.
EngineDb == SQLITE_MAGIC \o <<1>>
OtherDb == SQLITE_MAGIC \o <<2>>
NotADatabase == <<110, 111, 116, 32, 97, 32, 100, 97, 116, 97, 98, 97, 115, 101>>
Sidecar == <<7>>

NoFiles == [db |-> None, shm |-> None, wal |-> None]

\* What the Engine leaves in its directory after a write.
EngineTriples ==
    { [db |-> Some(EngineDb), shm |-> None, wal |-> None],
      [db |-> Some(EngineDb), shm |-> Some(Sidecar), wal |-> Some(Sidecar)] }

\* Snapshots other devices push.
OtherSnapshots ==
    { [db |-> OtherDb, db_shm |-> None, db_wal |-> w,
       meta |-> [last_modified |-> 0, device_name |-> OtherDevice]] :
         w \in {None, Some(Sidecar)} }
    \cup { [db |-> NotADatabase, db_shm |-> None, db_wal |-> None,
             meta |-> [last_modified |-> 0, device_name |-> OtherDevice]] }

\* Buffers around the edges of the header check: empty, the magic without
\* its NUL, the magic alone, the magic and one byte, the magic with its NUL
\* replaced and one byte, the magic and three bytes, and the text of the
\* unit test.
MagicWithoutNul == SubSeq(SQLITE_MAGIC, 1, Len(SQLITE_MAGIC) - 1)
HeaderBuffers ==
    { <<>>, MagicWithoutNul, SQLITE_MAGIC, SQLITE_MAGIC \o <<0>>,
      MagicWithoutNul \o <<1, 0>>, SQLITE_MAGIC \o <<1, 2, 3>>, NotADatabase }

\* Snapshots another device may leave in the folder, database.db being any
\* of HeaderBuffers.
HeaderSnapshots ==
    { [db |-> b, db_shm |-> None, db_wal |-> None,
       meta |-> [last_modified |-> 0, device_name |-> OtherDevice]] : b \in HeaderBuffers }

\* SyncResult / SyncError values.
NoResult == <<>>
Pushed == <<"Pushed">>
Pulled(from_device, gg_was_running) == <<"Pulled", from_device, gg_was_running>>
Skipped(reason) == <<"Skipped", reason>>
\* An error turned into a skip.
Err_as_skip(kind) == <<"Skipped", kind>>

Err(kind) == <<"Err", kind>>
IsPulled(r) == Len(r) = 3 /\ r[1] = "Pulled"

VARIABLES
    now,              \* the wall clock (Utc::now, file times)
    gg_running,       \* an Engine process is live
    locked,           \* database.db cannot be opened (held by the Engine)
    max_backups,      \* AppConfig.max_backups
    local,            \* the local triple: [db, shm, wal], each an Option
    local_mtime,      \* modification time of the local database.db
    remote,           \* the Folder provider's directory: [db, shm, wal, meta]
    backups,          \* backup_dir: sequence of [label, ts, files], oldest first
    pull_in_progress, \* SyncEngine.pull_in_progress (the suppression flag)
    safety,           \* holder of SyncEngine.safety (the mutex), or "free"
    watching,         \* the watcher thread is subscribed to the local directory
    chan,             \* the watcher's mpsc channel: the writers with a message pending
    last_event,       \* the debounce loop's last_event: Option<age of the Instant>
    burst,            \* writers of the messages received since the last on_change
    pc,               \* position of each caller
    result,           \* the result of each caller's engine operation
    snap,             \* each caller's snapshot in hand: Option<ConfigSnapshot>
    gg_was,           \* pull_from_remote's gg_was_running
    checked,          \* the caller's operation has run a safety-guard check
    sync_st,          \* sync's (local_exists, remote_meta) and the branch taken, an Option
    poll_meta,        \* the poller's meta, an Option
    last_seen,        \* the poller's last_seen
    source_dir,       \* a directory handed to create_backup: file name -> Option
    backup_path       \* the backup directory create_backup fills: file name -> Option

dirVars == <<source_dir, backup_path>>
envVars == <<now, gg_running, locked, max_backups, dirVars>>
fsVars == <<local, local_mtime, remote, backups>>
engVars == <<pull_in_progress, safety>>
watchVars == <<watching, chan, last_event, burst>>
procVars == <<pc, result, snap, gg_was, checked, sync_st, poll_meta, last_seen>>
vars == <<envVars, fsVars, engVars, watchVars, procVars>>

\* ------------------------------------------------------------ safety guard
\* SafetyGuard::is_gg_running: the process table is re-scanned on each call.
is_gg_running(gg) == gg

\* SafetyGuard::can_read_file: File::open(path).is_ok()
can_read_file(file, lck) == file # None /\ ~lck

\* A read check that does not try to open the file.
is_safe_to_read_without_open(l, lck) ==
    IF l.db = None THEN "NoConfig" ELSE "Safe"

\* SafetyGuard::is_safe_to_read
is_safe_to_read(l, lck) ==
    IF l.db = None THEN "NoConfig"
    ELSE IF ~can_read_file(l.db, lck) THEN "FileLocked"
    ELSE "Safe"

\* SafetyGuard::is_safe_to_write
is_safe_to_write(gg, l, lck) ==
    IF is_gg_running(gg) THEN "GGRunning"
    ELSE IF l.db = None THEN "NoConfig"
    ELSE IF ~can_read_file(l.db, lck) THEN "FileLocked"
    ELSE "Safe"

\* ---------------------------------------------------------- backup manager
FileNames == {"db", "shm", "wal"}

\* fs::copy of every file of `src` into the directory holding `old`:
\* files of `src` overwrite, files only in `old` stay.
CopyInto(old, src) == [f \in FileNames |-> IF src[f] # None THEN src[f] ELSE old[f]]

\* BackupEntry.created: the directory's modification time, in ticks.  A backup
\* directory is modified only while create_backup copies into it, which is
\* within the second its name carries.
created(e) == e.ts

\* A listing in the order the directories were last modified, oldest first.
list_backups_unsorted(bk) == bk

\* BackupManager::list_backups: the sub-directories, newest first.
list_backups(bk) == [i \in 1..Len(bk) |-> bk[Len(bk) + 1 - i]]

\* Retention that removes nothing.
prune_nothing(bk, maxb) == bk

\* BackupManager::prune_old_backups: remove backups[max_backups..].
prune_old_backups(bk, maxb) ==
    LET l == list_backups(bk)
        old == IF Len(l) > maxb
               THEN { <<l[i].label, l[i].ts>> : i \in (maxb + 1)..Len(l) }
               ELSE {}
        Keep(e) == <<e.label, e.ts>> \notin old
    IN SelectSeq(bk, Keep)

BackupIndex(bk, label, t) == { i \in 1..Len(bk) : bk[i].label = label /\ bk[i].ts = t }

RemoveAt(s, i) == [j \in 1..(Len(s) - 1) |-> IF j < i THEN s[j] ELSE s[j + 1]]

\* The backup directory after fs::create_dir_all(backup_path) and the copy
\* loop.  The name is <label>-<timestamp>: a second backup with the same
\* label in the same tick lands in the same directory, whose modification
\* time moves only if the copy adds a file name to it.
CopyBackup(bk, files, label, t) ==
    LET idx == BackupIndex(bk, label, t) IN
    IF idx = {}
    THEN Append(bk, [label |-> label, ts |-> t, files |-> CopyInto(NoFiles, files)])
    ELSE LET i == CHOOSE j \in idx : TRUE
             e == [bk[i] EXCEPT !.files = CopyInto(bk[i].files, files)]
             grows == \E f \in FileNames : files[f] # None /\ bk[i].files[f] = None
         IN IF grows THEN Append(RemoveAt(bk, i), e) ELSE [bk EXCEPT ![i] = e]

\* A create_backup that reports success without copying anything.
create_backup_without_copy(bk, files, label, t, maxb, outcome) ==
    [dir |-> bk, ok |-> outcome = "ok"]

\* BackupManager::create_backup.  `outcome` is where its I/O fails:
\* "mkdir" (create_dir_all fails), "copy" (the first fs::copy fails, the
\* directory stays and retention is not run) or "ok".
create_backup(bk, files, label, t, maxb, outcome) ==
    IF outcome = "mkdir" THEN [dir |-> bk, ok |-> FALSE]
    ELSE IF outcome = "copy"
    THEN [dir |-> IF BackupIndex(bk, label, t) = {}
                  THEN Append(bk, [label |-> label, ts |-> t, files |-> NoFiles])
                  ELSE bk,
          ok |-> FALSE]
    ELSE [dir |-> prune_old_backups(CopyBackup(bk, files, label, t), maxb), ok |-> TRUE]

\* The outcomes create_backup can have: the copy of a locked database.db fails.
BackupOutcomes(lck) == IF lck THEN {"mkdir", "copy"} ELSE {"ok", "mkdir", "copy"}

\* BackupManager::restore_backup: copy every file of the backup into target_dir.
restore_backup(files, target) == CopyInto(target, files)

\* ------------------------------------------- create_backup, file by file
\* File names, as the characters they are made of.
DATABASE_DB == <<"d", "a", "t", "a", "b", "a", "s", "e", ".", "d", "b">>
DATABASE_DB_WAL == DATABASE_DB \o <<"-", "w", "a", "l">>
DATABASE_DB_BAK == DATABASE_DB \o <<".", "b", "a", "k">>
DATABASE == <<"d", "a", "t", "a", "b", "a", "s", "e">>
MY_DATABASE_DB == <<"m", "y", "-">> \o DATABASE_DB
CONFIG_JSON == <<"c", "o", "n", "f", "i", "g", ".", "j", "s", "o", "n">>

DirNames == {DATABASE_DB, DATABASE_DB_WAL, DATABASE_DB_BAK, DATABASE, MY_DATABASE_DB, CONFIG_JSON}

EmptyDir == [n \in DirNames |-> None]

\* Content of a file of source_dir, and of a file an earlier create_backup
\* of the same second left in the backup directory.
FileNow == <<1>>
FileBefore == <<2>>

\* A prefix test that every name passes.
starts_with_anything(name, prefix) == TRUE

\* str::starts_with
starts_with(name, prefix) ==
    Len(name) >= Len(prefix) /\ SubSeq(name, 1, Len(prefix)) = prefix

\* The names create_backup's loop copies: name_str.starts_with("database.db")
Copied(src) == { n \in DirNames : src[n] # None /\ starts_with(n, DATABASE_DB) }

\* fs::copy(entry.path(), backup_path.join(&name)) for the names in `done`
copy_files(src, dst, done) == [n \in DirNames |-> IF n \in done THEN src[n] ELSE dst[n]]

\* create_backup's create_dir_all and copy loop on source_dir; `done` is the
\* set of files copied when the loop ends: all of them, or fewer when an
\* fs::copy fails.
CreateBackupCopy(done) ==
    /\ done \subseteq Copied(source_dir)
    /\ backup_path' = copy_files(source_dir, backup_path, done)
    /\ UNCHANGED <<now, gg_running, locked, max_backups, source_dir,
                   fsVars, engVars, watchVars, procVars>>

\* Something else writes or removes a file of source_dir.
SourceWrite(n, c) ==
    /\ source_dir[n] # c
    /\ source_dir' = [source_dir EXCEPT ![n] = c]
    /\ UNCHANGED <<now, gg_running, locked, max_backups, backup_path,
                   fsVars, engVars, watchVars, procVars>>

\* --------------------------------------------------------- Folder provider
NoRemote == [db |-> None, shm |-> None, wal |-> None, meta |-> None]

\* FolderProvider::push: writes database.db, the sidecars the snapshot has,
\* and sync_meta.json stamped with the device name and Utc::now().
FolderPush(r, s, device, t) ==
    [db |-> Some(s.db),
     shm |-> IF s.db_shm # None THEN s.db_shm ELSE r.shm,
     wal |-> IF s.db_wal # None THEN s.db_wal ELSE r.wal,
     meta |-> Some([last_modified |-> t, device_name |-> device])]

\* FolderProvider::remote_meta
FolderRemoteMeta(r) ==
    IF r.meta = None THEN [tag |-> "NotFound"] ELSE [tag |-> "Ok", val |-> r.meta[1]]

\* A pull that reads a missing file as an empty one instead of NotFound.
FolderPull_missing_as_empty(r) ==
    [tag |-> "Ok",
     val |-> [db |-> IF r.db = None THEN <<>> ELSE r.db[1],
              db_shm |-> r.shm, db_wal |-> r.wal,
              meta |-> IF r.meta = None
                       THEN [last_modified |-> 0, device_name |-> OtherDevice]
                       ELSE r.meta[1]]]

\* FolderProvider::pull
FolderPull(r) ==
    IF r.db = None THEN [tag |-> "NotFound"]
    ELSE IF FolderRemoteMeta(r).tag # "Ok" THEN [tag |-> "NotFound"]
    ELSE [tag |-> "Ok",
          val |-> [db |-> r.db[1], db_shm |-> r.shm, db_wal |-> r.wal,
                   meta |-> FolderRemoteMeta(r).val]]

\* --------------------------------------------------- engine: local files
\* SyncEngine::read_local_config
read_local_config(l, lck, t) ==
    IF ~can_read_file(l.db, lck) THEN [tag |-> "Err"]
    ELSE [tag |-> "Ok",
          val |-> [db |-> l.db[1], db_shm |-> l.shm, db_wal |-> l.wal,
                   meta |-> [last_modified |-> t, device_name |-> ThisDevice]]]

\* The places SyncEngine::write_local_config can fail for a snapshot:
\* at create_dir_all ("dir") or at the write of one of its files.
WriteOutcomes(s, lck) ==
    IF lck THEN {"dir", "db"}
    ELSE {"ok", "dir", "db"}
         \cup (IF s.db_shm # None THEN {"shm"} ELSE {})
         \cup (IF s.db_wal # None THEN {"wal"} ELSE {})

\* SyncEngine::write_local_config: the local triple it leaves.
write_local_config(l, s, outcome) ==
    IF outcome \in {"dir", "db"} THEN l
    ELSE [db |-> Some(s.db),
          shm |-> IF s.db_shm # None /\ outcome # "shm" THEN s.db_shm ELSE l.shm,
          wal |-> IF s.db_wal # None /\ outcome \notin {"shm", "wal"} THEN s.db_wal ELSE l.wal]

\* -------------------------------------------------------------------- Init
\* The state after run()'s setup.  `w`: ConfigWatcher::watch subscribed to the
\* local directory (it returns Err, and the thread ends, when it cannot).
Startup(w) ==
    /\ now = 0
    /\ gg_running \in BOOLEAN
    /\ locked = FALSE
    /\ max_backups \in {0, MaxBackups}
    /\ local \in {NoFiles} \cup EngineTriples
    /\ local_mtime = 0
    /\ remote = NoRemote
    /\ backups = <<>>
    /\ pull_in_progress = FALSE
    /\ safety = "free"
    /\ watching = w
    /\ chan = {}
    /\ last_event = None
    /\ burst = {}
    /\ pc = [p \in Procs |-> IF p = "watcher" THEN "wait"
                             ELSE IF p = "poller" THEN "sleep" ELSE "idle"]
    /\ result = [p \in Procs |-> NoResult]
    /\ snap = [p \in Procs |-> None]
    /\ gg_was = [p \in Procs |-> FALSE]
    /\ checked = [p \in Procs |-> FALSE]
    /\ sync_st = None
    /\ poll_meta = None
    /\ last_seen = -1

Init == Startup(FALSE) /\ source_dir = EmptyDir /\ backup_path = EmptyDir
InitWatch == Startup(TRUE) /\ source_dir = EmptyDir /\ backup_path = EmptyDir

\* ------------------------------------------------------------- environment
\* tx.send(event) for the events of one write of the local directory by `src`.
Post(src) == IF watching THEN chan \cup {src} ELSE chan

\* notify's EventKind, and the events the operating system may report: a
\* kind and up to two paths, each with one of three file names or with none
\* (Path::file_name() is None, or is not UTF-8).
EventKinds == {"Any", "Access", "Create", "Modify", "Remove", "Other"}
PathNames == {None, Some(DATABASE_DB), Some(DATABASE_DB_WAL), Some(CONFIG_JSON)}
Events ==
    [kind : EventKinds,
     paths : {<<>>} \cup { <<a>> : a \in PathNames }
               \cup (PathNames \X {Some(DATABASE_DB), Some(CONFIG_JSON)})]

\* An event filter that looks at the paths only.
is_db_event_of_any_kind(event) ==
    \E i \in 1..Len(event.paths) :
        event.paths[i] # None /\ starts_with(event.paths[i][1], DATABASE_DB)

\* is_db_event: kind is Modify or Create and a path's file name starts with
\* database.db.
is_db_event(event) ==
    /\ event.kind \in {"Modify", "Create"}
    /\ \E i \in 1..Len(event.paths) :
          event.paths[i] # None /\ starts_with(event.paths[i][1], DATABASE_DB)

\* The closure given to recommended_watcher: if is_db_event(&event) then
\* tx.send(event).  The message is recorded by the kind of its event; a
\* message of that kind already pending stands for both.
NotifyEvent(event) ==
    /\ watching
    /\ chan' = IF is_db_event(event) THEN Post(event.kind) ELSE chan
    /\ UNCHANGED <<envVars, fsVars, engVars, watching, last_event, burst, procVars>>

\* The clock advances.
Tick ==
    /\ now < MaxTime
    /\ now' = now + 1
    /\ UNCHANGED <<gg_running, locked, max_backups, dirVars, fsVars, engVars, watchVars, procVars>>

\* The Engine (SteelSeries GG) starts or stops.
EngineStart ==
    /\ ~gg_running
    /\ gg_running' = TRUE
    /\ UNCHANGED <<now, locked, max_backups, dirVars, fsVars, engVars, watchVars, procVars>>

EngineStop ==
    /\ gg_running
    /\ gg_running' = FALSE
    /\ locked' = FALSE
    /\ UNCHANGED <<now, max_backups, dirVars, fsVars, engVars, watchVars, procVars>>

\* The running Engine takes or drops a lock on database.db.
EngineLock ==
    /\ gg_running
    /\ local.db # None
    /\ locked' = ~locked
    /\ UNCHANGED <<now, gg_running, max_backups, dirVars, fsVars, engVars, watchVars, procVars>>

\* The running Engine writes its database; the watcher is notified.
EngineWrite(t) ==
    /\ gg_running
    /\ local' = t
    /\ local_mtime' = now
    /\ chan' = Post("engine")
    /\ UNCHANGED <<envVars, remote, backups, engVars, watching, last_event, burst, procVars>>

\* Another device pushes its snapshot to the shared remote.
OtherDevicePush(s) ==
    /\ remote' = FolderPush(remote, s, OtherDevice, now)
    /\ remote' # remote
    /\ UNCHANGED <<envVars, local, local_mtime, backups, engVars, watchVars, procVars>>

\* ----------------------------------------------------------------- watcher
\* A receive that takes the message and leaves last_event as it was.
WatcherRecv_forgets ==
    /\ pc["watcher"] = "wait"
    /\ chan # {}
    /\ chan' = {}
    /\ burst' = burst \cup chan
    /\ UNCHANGED <<envVars, fsVars, engVars, watching, last_event, procVars>>

\* ConfigWatcher::watch, rx.recv_timeout(..) = Ok(_): last_event = Some(Instant::now()).
WatcherRecv ==
    /\ pc["watcher"] = "wait"
    /\ chan # {}
    /\ chan' = {}
    /\ last_event' = Some(0)
    /\ burst' = burst \cup chan
    /\ UNCHANGED <<envVars, fsVars, engVars, watching, procVars>>

\* A timeout branch that calls on_change whenever last_event is set, without
\* comparing last.elapsed() with the debounce window.
WatcherTimeout_eager ==
    /\ pc["watcher"] = "wait"
    /\ chan = {}
    /\ last_event # None
    /\ last_event' = None
    /\ pc' = [pc EXCEPT !["watcher"] = "on_change"]
    /\ UNCHANGED <<envVars, fsVars, engVars, watching, chan, burst,
                   result, snap, gg_was, checked, sync_st, poll_meta, last_seen>>

\* ConfigWatcher::watch, Err(Timeout): one more period has passed with no
\* message; once last.elapsed() >= debounce, clear last_event and call on_change.
WatcherTimeout ==
    /\ pc["watcher"] = "wait"
    /\ chan = {}
    /\ last_event # None
    /\ IF last_event[1] + 1 >= DebounceTicks
       THEN /\ last_event' = None
            /\ pc' = [pc EXCEPT !["watcher"] = "on_change"]
       ELSE /\ last_event' = Some(last_event[1] + 1)
            /\ UNCHANGED pc
    /\ UNCHANGED <<envVars, fsVars, engVars, watching, chan, burst,
                   result, snap, gg_was, checked, sync_st, poll_meta, last_seen>>

\* SyncEngine::should_suppress_push: pull_in_progress.swap(false)
should_suppress_push(flag) == [ret |-> flag, flag |-> FALSE]

\* The watcher callback of run(): skip the auto-push if a pull just happened,
\* else drive push_to_remote.
WatcherCallback ==
    /\ pc["watcher"] = "on_change"
    /\ pull_in_progress' = should_suppress_push(pull_in_progress).flag
    /\ IF should_suppress_push(pull_in_progress).ret
       THEN /\ pc' = [pc EXCEPT !["watcher"] = "wait"]
            /\ burst' = {}
            /\ UNCHANGED <<result, checked>>
       ELSE /\ pc' = [pc EXCEPT !["watcher"] = "push_lock"]
            /\ result' = [result EXCEPT !["watcher"] = NoResult]
            /\ checked' = [checked EXCEPT !["watcher"] = FALSE]
            /\ UNCHANGED burst
    /\ UNCHANGED <<envVars, fsVars, safety, watching, chan, last_event,
                   snap, gg_was, sync_st, poll_meta, last_seen>>

\* The callback returns after push_to_remote: back to the debounce loop.
WatcherFinish ==
    /\ pc["watcher"] = "ret"
    /\ pc' = [pc EXCEPT !["watcher"] = "wait"]
    /\ burst' = {}
    /\ result' = [result EXCEPT !["watcher"] = NoResult]
    /\ checked' = [checked EXCEPT !["watcher"] = FALSE]
    /\ UNCHANGED <<envVars, fsVars, engVars, watching, chan, last_event,
                   snap, gg_was, sync_st, poll_meta, last_seen>>

\* ------------------------------------------------ engine: push_to_remote
\* let mut safety = self.safety.lock().await
PushLock(p) ==
    /\ pc[p] = "push_lock"
    /\ safety = "free"
    /\ safety' = p
    /\ pc' = [pc EXCEPT ![p] = "push_check"]
    /\ UNCHANGED <<envVars, fsVars, pull_in_progress, watchVars,
                   result, snap, gg_was, checked, sync_st, poll_meta, last_seen>>

\* match safety.is_safe_to_read(..) ... drop(safety)
PushCheck(p) ==
    /\ pc[p] = "push_check"
    /\ safety' = "free"
    /\ checked' = [checked EXCEPT ![p] = TRUE]
    /\ LET c == is_safe_to_read(local, locked) IN
       IF c = "NoConfig"
       THEN /\ result' = [result EXCEPT ![p] = Skipped("NoLocalConfig")]
            /\ pc' = [pc EXCEPT ![p] = "ret"]
       ELSE IF c = "FileLocked"
       THEN /\ result' = [result EXCEPT ![p] = Skipped("FileLocked")]
            /\ pc' = [pc EXCEPT ![p] = "ret"]
       ELSE /\ pc' = [pc EXCEPT ![p] = "push_read"]
            /\ UNCHANGED result
    /\ UNCHANGED <<envVars, fsVars, pull_in_progress, watchVars,
                   snap, gg_was, sync_st, poll_meta, last_seen>>

\* let snapshot = self.read_local_config()?
PushRead(p) ==
    /\ pc[p] = "push_read"
    /\ LET r == read_local_config(local, locked, now) IN
       IF r.tag = "Err"
       THEN /\ result' = [result EXCEPT ![p] = Err("Io")]
            /\ pc' = [pc EXCEPT ![p] = "ret"]
            /\ UNCHANGED snap
       ELSE /\ snap' = [snap EXCEPT ![p] = Some(r.val)]
            /\ pc' = [pc EXCEPT ![p] = "push_send"]
            /\ UNCHANGED result
    /\ UNCHANGED <<envVars, fsVars, engVars, watchVars,
                   gg_was, checked, sync_st, poll_meta, last_seen>>

\* self.provider.push(&snapshot).await?; Ok(Pushed)
PushSend(p, fail) ==
    /\ pc[p] = "push_send"
    /\ IF fail
       THEN /\ result' = [result EXCEPT ![p] = Err("Provider")]
            /\ UNCHANGED remote
       ELSE /\ remote' = FolderPush(remote, snap[p][1], ThisDevice, now)
            /\ result' = [result EXCEPT ![p] = Pushed]
    /\ snap' = [snap EXCEPT ![p] = None]
    /\ pc' = [pc EXCEPT ![p] = "ret"]
    /\ UNCHANGED <<envVars, local, local_mtime, backups, engVars, watchVars,
                   gg_was, checked, sync_st, poll_meta, last_seen>>

\* ---------------------------------------------- engine: pull_from_remote
\* let mut safety = self.safety.lock().await
PullLock(p) ==
    /\ pc[p] = "pull_lock"
    /\ safety = "free"
    /\ safety' = p
    /\ pc' = [pc EXCEPT ![p] = "pull_check"]
    /\ UNCHANGED <<envVars, fsVars, pull_in_progress, watchVars,
                   result, snap, gg_was, checked, sync_st, poll_meta, last_seen>>

\* A check that keeps the guard for the rest of the pull (no drop(safety),
\* and the guard outlives the return).
PullCheck_holds(p) ==
    /\ pc[p] = "pull_check"
    /\ checked' = [checked EXCEPT ![p] = TRUE]
    /\ gg_was' = [gg_was EXCEPT ![p] = is_gg_running(gg_running)]
    /\ IF is_safe_to_read(local, locked) = "FileLocked"
       THEN /\ result' = [result EXCEPT ![p] = Skipped("FileLocked")]
            /\ pc' = [pc EXCEPT ![p] = "ret"]
       ELSE /\ pc' = [pc EXCEPT ![p] = "pull_fetch"]
            /\ UNCHANGED result
    /\ UNCHANGED <<envVars, fsVars, engVars, watchVars,
                   snap, sync_st, poll_meta, last_seen>>

\* gg_was_running = safety.is_gg_running(); match safety.is_safe_to_read(..):
\* only FileLocked skips; drop(safety)
PullCheck(p) ==
    /\ pc[p] = "pull_check"
    /\ safety' = "free"
    /\ checked' = [checked EXCEPT ![p] = TRUE]
    /\ gg_was' = [gg_was EXCEPT ![p] = is_gg_running(gg_running)]
    /\ IF is_safe_to_read(local, locked) = "FileLocked"
       THEN /\ result' = [result EXCEPT ![p] = Skipped("FileLocked")]
            /\ pc' = [pc EXCEPT ![p] = "ret"]
       ELSE /\ pc' = [pc EXCEPT ![p] = "pull_fetch"]
            /\ UNCHANGED result
    /\ UNCHANGED <<envVars, fsVars, pull_in_progress, watchVars,
                   snap, sync_st, poll_meta, last_seen>>

\* self.provider.pull().await, then validate_sqlite_header(&remote.db)
PullFetch(p, fail) ==
    /\ pc[p] = "pull_fetch"
    /\ LET r == FolderPull(remote) IN
       IF fail
       THEN /\ result' = [result EXCEPT ![p] = Err("Provider")]
            /\ pc' = [pc EXCEPT ![p] = "ret"]
            /\ UNCHANGED snap
       ELSE IF r.tag = "NotFound"
       THEN /\ result' = [result EXCEPT ![p] = Skipped("NoRemoteConfig")]
            /\ pc' = [pc EXCEPT ![p] = "ret"]
            /\ UNCHANGED snap
       ELSE IF ~validate_sqlite_header(r.val.db)
       THEN /\ result' = [result EXCEPT ![p] = Skipped("InvalidRemoteFile")]
            /\ pc' = [pc EXCEPT ![p] = "ret"]
            /\ UNCHANGED snap
       ELSE /\ snap' = [snap EXCEPT ![p] = Some(r.val)]
            /\ pc' = [pc EXCEPT ![p] = "pull_backup"]
            /\ UNCHANGED result
    /\ UNCHANGED <<envVars, fsVars, engVars, watchVars,
                   gg_was, checked, sync_st, poll_meta, last_seen>>

\* if database.db exists { self.backup_manager.create_backup(.., "pre-pull")? }
PullBackup(p, outcome) ==
    /\ pc[p] = "pull_backup"
    /\ IF local.db # None
       THEN LET b == create_backup(backups, local, "pre-pull", now, max_backups, outcome) IN
            /\ outcome \in BackupOutcomes(locked)
            /\ backups' = b.dir
            /\ IF b.ok
               THEN /\ pc' = [pc EXCEPT ![p] = "pull_store"]
                    /\ UNCHANGED <<result, snap>>
               ELSE /\ result' = [result EXCEPT ![p] = Err("Io")]
                    /\ snap' = [snap EXCEPT ![p] = None]
                    /\ pc' = [pc EXCEPT ![p] = "ret"]
       ELSE /\ outcome = "ok"
            /\ pc' = [pc EXCEPT ![p] = "pull_store"]
            /\ UNCHANGED <<backups, result, snap>>
    /\ UNCHANGED <<envVars, local, local_mtime, remote, engVars, watchVars,
                   gg_was, checked, sync_st, poll_meta, last_seen>>

\* ------------------------------- create_backup of a pull, one call at a time
\* pull_from_remote's create_backup(.., "pre-pull") as the file-system calls
\* it makes, for callers that run it at the same time.  The name is taken
\* from Utc::now() at entry; these steps are used where the clock stands.
BackupStates == {"bk_copy", "bk_prune"}

\* if database.db exists: let backup_path = ..; fs::create_dir_all(&backup_path)?
BackupMkdir(p, fail) ==
    /\ pc[p] = "pull_backup"
    /\ IF local.db = None
       THEN /\ ~fail
            /\ pc' = [pc EXCEPT ![p] = "pull_store"]
            /\ UNCHANGED <<backups, result, snap>>
       ELSE IF fail
       THEN /\ result' = [result EXCEPT ![p] = Err("Io")]
            /\ snap' = [snap EXCEPT ![p] = None]
            /\ pc' = [pc EXCEPT ![p] = "ret"]
            /\ UNCHANGED backups
       ELSE /\ backups' = create_backup(backups, local, "pre-pull", now, max_backups, "copy").dir
            /\ pc' = [pc EXCEPT ![p] = "bk_copy"]
            /\ UNCHANGED <<result, snap>>
    /\ UNCHANGED <<envVars, local, local_mtime, remote, engVars, watchVars,
                   gg_was, checked, sync_st, poll_meta, last_seen>>

\* for entry in fs::read_dir(source_dir)? { .. fs::copy(..)? }: fails when
\* database.db is locked or has gone, or when the backup directory has been
\* removed since create_dir_all.
BackupCopy(p) ==
    /\ pc[p] = "bk_copy"
    /\ IF locked \/ BackupIndex(backups, "pre-pull", now) = {}
       THEN /\ result' = [result EXCEPT ![p] = Err("Io")]
            /\ snap' = [snap EXCEPT ![p] = None]
            /\ pc' = [pc EXCEPT ![p] = "ret"]
            /\ UNCHANGED backups
       ELSE /\ backups' = CopyBackup(backups, local, "pre-pull", now)
            /\ pc' = [pc EXCEPT ![p] = "bk_prune"]
            /\ UNCHANGED <<result, snap>>
    /\ UNCHANGED <<envVars, local, local_mtime, remote, engVars, watchVars,
                   gg_was, checked, sync_st, poll_meta, last_seen>>

\* self.prune_old_backups()?; Ok(backup_path)
BackupPrune(p) ==
    /\ pc[p] = "bk_prune"
    /\ backups' = prune_old_backups(backups, max_backups)
    /\ pc' = [pc EXCEPT ![p] = "pull_store"]
    /\ UNCHANGED <<envVars, local, local_mtime, remote, engVars, watchVars,
                   result, snap, gg_was, checked, sync_st, poll_meta, last_seen>>

\* self.pull_in_progress.store(true, SeqCst)
PullStore(p) ==
    /\ pc[p] = "pull_store"
    /\ pull_in_progress' = TRUE
    /\ pc' = [pc EXCEPT ![p] = "pull_write"]
    /\ UNCHANGED <<envVars, fsVars, safety, watchVars,
                   result, snap, gg_was, checked, sync_st, poll_meta, last_seen>>

\* self.write_local_config(&remote)?; Ok(Pulled { from_device, gg_was_running })
PullWrite(p, outcome) ==
    /\ pc[p] = "pull_write"
    /\ outcome \in WriteOutcomes(snap[p][1], locked)
    /\ local' = write_local_config(local, snap[p][1], outcome)
    /\ IF outcome \in {"dir", "db"}
       THEN UNCHANGED <<local_mtime, chan>>
       ELSE /\ local_mtime' = now
            /\ chan' = Post("pull")
    /\ result' = [result EXCEPT ![p] =
           IF outcome = "ok"
           THEN Pulled(snap[p][1].meta.device_name, gg_was[p])
           ELSE Err("Io")]
    /\ snap' = [snap EXCEPT ![p] = None]
    /\ pc' = [pc EXCEPT ![p] = "ret"]
    /\ UNCHANGED <<envVars, remote, backups, engVars, watching, last_event, burst,
                   gg_was, checked, sync_st, poll_meta, last_seen>>

\* ------------------------------------- Folder provider, one file at a time
\* FolderProvider::push and FolderProvider::pull as the sequences of file
\* operations they are: callers of the provider on other threads or devices
\* see the remote folder between any two of them.
FolderStates == {"fpush_shm", "fpush_wal", "fpush_meta", "fpull_shm", "fpull_wal", "fpull_meta"}

\* A provider call of caller p ends in an I/O error.
FolderFail(p) ==
    /\ result' = [result EXCEPT ![p] = Err("Provider")]
    /\ snap' = [snap EXCEPT ![p] = None]
    /\ pc' = [pc EXCEPT ![p] = "ret"]
    /\ UNCHANGED remote

\* fs::create_dir_all(sync_dir)?; fs::write(database.db, &snapshot.db)?
FolderPushDb(p, fail) ==
    /\ pc[p] = "push_send"
    /\ IF fail THEN FolderFail(p)
       ELSE /\ remote' = [remote EXCEPT !.db = Some(snap[p][1].db)]
            /\ pc' = [pc EXCEPT ![p] = "fpush_shm"]
            /\ UNCHANGED <<result, snap>>
    /\ UNCHANGED <<envVars, local, local_mtime, backups, engVars, watchVars,
                   gg_was, checked, sync_st, poll_meta, last_seen>>

\* if let Some(shm) = &snapshot.db_shm { fs::write(database.db-shm, shm)? }
FolderPushShm(p, fail) ==
    /\ pc[p] = "fpush_shm"
    /\ IF fail /\ snap[p][1].db_shm # None THEN FolderFail(p)
       ELSE /\ ~fail
            /\ remote' = [remote EXCEPT !.shm = IF snap[p][1].db_shm # None
                                                THEN snap[p][1].db_shm ELSE @]
            /\ pc' = [pc EXCEPT ![p] = "fpush_wal"]
            /\ UNCHANGED <<result, snap>>
    /\ UNCHANGED <<envVars, local, local_mtime, backups, engVars, watchVars,
                   gg_was, checked, sync_st, poll_meta, last_seen>>

\* if let Some(wal) = &snapshot.db_wal { fs::write(database.db-wal, wal)? }
FolderPushWal(p, fail) ==
    /\ pc[p] = "fpush_wal"
    /\ IF fail /\ snap[p][1].db_wal # None THEN FolderFail(p)
       ELSE /\ ~fail
            /\ remote' = [remote EXCEPT !.wal = IF snap[p][1].db_wal # None
                                                THEN snap[p][1].db_wal ELSE @]
            /\ pc' = [pc EXCEPT ![p] = "fpush_meta"]
            /\ UNCHANGED <<result, snap>>
    /\ UNCHANGED <<envVars, local, local_mtime, backups, engVars, watchVars,
                   gg_was, checked, sync_st, poll_meta, last_seen>>

\* fs::write(sync_meta.json, {last_modified: Utc::now(), device_name})?; Ok(())
\* and push_to_remote returns Pushed.
FolderPushMeta(p, fail) ==
    /\ pc[p] = "fpush_meta"
    /\ IF fail THEN FolderFail(p)
       ELSE /\ remote' = [remote EXCEPT !.meta =
                             Some([last_modified |-> now, device_name |-> ThisDevice])]
            /\ result' = [result EXCEPT ![p] = Pushed]
            /\ snap' = [snap EXCEPT ![p] = None]
            /\ pc' = [pc EXCEPT ![p] = "ret"]
    /\ UNCHANGED <<envVars, local, local_mtime, backups, engVars, watchVars,
                   gg_was, checked, sync_st, poll_meta, last_seen>>

\* The metadata of a snapshot whose sync_meta.json has not been read yet.
MetaPending == [last_modified |-> -1, device_name |-> "pending"]

\* let db = fs::read(database.db).map_err(|_| NotFound)?
FolderPullDb(p) ==
    /\ pc[p] = "pull_fetch"
    /\ IF remote.db = None
       THEN /\ result' = [result EXCEPT ![p] = Skipped("NoRemoteConfig")]
            /\ pc' = [pc EXCEPT ![p] = "ret"]
            /\ UNCHANGED snap
       ELSE /\ snap' = [snap EXCEPT ![p] = Some([db |-> remote.db[1], db_shm |-> None,
                                                 db_wal |-> None, meta |-> MetaPending])]
            /\ pc' = [pc EXCEPT ![p] = "fpull_shm"]
            /\ UNCHANGED result
    /\ UNCHANGED <<envVars, fsVars, engVars, watchVars,
                   gg_was, checked, sync_st, poll_meta, last_seen>>

\* let db_shm = fs::read(database.db-shm).ok()
FolderPullShm(p) ==
    /\ pc[p] = "fpull_shm"
    /\ snap' = [snap EXCEPT ![p] = Some([snap[p][1] EXCEPT !.db_shm = remote.shm])]
    /\ pc' = [pc EXCEPT ![p] = "fpull_wal"]
    /\ UNCHANGED <<envVars, fsVars, engVars, watchVars,
                   result, gg_was, checked, sync_st, poll_meta, last_seen>>

\* let db_wal = fs::read(database.db-wal).ok()
FolderPullWal(p) ==
    /\ pc[p] = "fpull_wal"
    /\ snap' = [snap EXCEPT ![p] = Some([snap[p][1] EXCEPT !.db_wal = remote.wal])]
    /\ pc' = [pc EXCEPT ![p] = "fpull_meta"]
    /\ UNCHANGED <<envVars, fsVars, engVars, watchVars,
                   result, gg_was, checked, sync_st, poll_meta, last_seen>>

\* let meta = self.remote_meta().await?; Ok(ConfigSnapshot { .. }), and
\* pull_from_remote's match on the result and validate_sqlite_header
FolderPullMeta(p) ==
    /\ pc[p] = "fpull_meta"
    /\ LET m == FolderRemoteMeta(remote) IN
       IF m.tag = "NotFound"
       THEN /\ result' = [result EXCEPT ![p] = Skipped("NoRemoteConfig")]
            /\ snap' = [snap EXCEPT ![p] = None]
            /\ pc' = [pc EXCEPT ![p] = "ret"]
       ELSE IF ~validate_sqlite_header(snap[p][1].db)
       THEN /\ result' = [result EXCEPT ![p] = Skipped("InvalidRemoteFile")]
            /\ snap' = [snap EXCEPT ![p] = None]
            /\ pc' = [pc EXCEPT ![p] = "ret"]
       ELSE /\ snap' = [snap EXCEPT ![p] = Some([snap[p][1] EXCEPT !.meta = m.val])]
            /\ pc' = [pc EXCEPT ![p] = "pull_backup"]
            /\ UNCHANGED result
    /\ UNCHANGED <<envVars, fsVars, engVars, watchVars,
                   gg_was, checked, sync_st, poll_meta, last_seen>>

\* ------------------------------------------------------------ engine: sync
\* local_exists = database.db exists; remote_meta = provider.remote_meta()
SyncProbe(p, fail) ==
    /\ pc[p] = "sync_probe"
    /\ IF fail
       THEN /\ result' = [result EXCEPT ![p] = Err("Provider")]
            /\ pc' = [pc EXCEPT ![p] = "ret"]
            /\ UNCHANGED sync_st
       ELSE /\ sync_st' = Some([local_exists |-> local.db # None,
                                remote_meta |-> IF FolderRemoteMeta(remote).tag = "Ok"
                                                THEN Some(FolderRemoteMeta(remote).val)
                                                ELSE None,
                                branch |-> "undecided"])
            /\ pc' = [pc EXCEPT ![p] = "sync_decide"]
            /\ UNCHANGED result
    /\ UNCHANGED <<envVars, fsVars, engVars, watchVars,
                   snap, gg_was, checked, poll_meta, last_seen>>

\* A match that pushes on a tie of the timestamps (>= for >).
sync_tie_pushes(local_exists, remote_meta, local_ts) ==
    IF local_exists /\ remote_meta # None
    THEN IF local_ts >= remote_meta[1].last_modified THEN "backup_push"
         ELSE "pull"
    ELSE IF local_exists THEN "push"
    ELSE IF remote_meta # None THEN "pull"
    ELSE "NoLocalConfig"

\* A match whose local-is-newer branch pushes without the pre-push backup.
sync_without_backup(local_exists, remote_meta, local_ts) ==
    IF local_exists /\ remote_meta # None
    THEN IF local_ts > remote_meta[1].last_modified THEN "push"
         ELSE IF remote_meta[1].last_modified > local_ts THEN "pull"
         ELSE "AlreadyInSync"
    ELSE IF local_exists THEN "push"
    ELSE IF remote_meta # None THEN "pull"
    ELSE "NoLocalConfig"

\* sync's match (local_exists, remote_meta), with database.db's modification
\* time local_ts: the branch it takes.
sync(local_exists, remote_meta, local_ts) ==
    IF local_exists /\ remote_meta # None
    THEN IF local_ts > remote_meta[1].last_modified THEN "backup_push"
         ELSE IF remote_meta[1].last_modified > local_ts THEN "pull"
         ELSE "AlreadyInSync"
    ELSE IF local_exists THEN "push"
    ELSE IF remote_meta # None THEN "pull"
    ELSE "NoLocalConfig"

\* The match of sync: fs::metadata(database.db)? when both sides exist, the
\* pre-push backup when local is newer, then the call the branch makes.
SyncDecide(p, outcome) ==
    /\ pc[p] = "sync_decide"
    /\ LET st == sync_st[1]
           branch == sync(st.local_exists, st.remote_meta, local_mtime)
       IN
       IF st.local_exists /\ st.remote_meta # None /\ local.db = None
       THEN /\ outcome = "ok"
            /\ result' = [result EXCEPT ![p] = Err("Io")]
            /\ pc' = [pc EXCEPT ![p] = "ret"]
            /\ UNCHANGED <<backups, sync_st>>
       ELSE IF branch = "backup_push"
       THEN LET b == create_backup(backups, local, "pre-push", now, max_backups, outcome) IN
            /\ outcome \in BackupOutcomes(locked)
            /\ backups' = b.dir
            /\ sync_st' = Some([st EXCEPT !.branch = branch])
            /\ IF b.ok
               THEN /\ pc' = [pc EXCEPT ![p] = "push_lock"]
                    /\ UNCHANGED result
               ELSE /\ result' = [result EXCEPT ![p] = Err("Io")]
                    /\ pc' = [pc EXCEPT ![p] = "ret"]
       ELSE /\ outcome = "ok"
            /\ sync_st' = Some([st EXCEPT !.branch = branch])
            /\ UNCHANGED backups
            /\ IF branch = "push"
               THEN /\ pc' = [pc EXCEPT ![p] = "push_lock"]
                    /\ UNCHANGED result
               ELSE IF branch = "pull"
               THEN /\ pc' = [pc EXCEPT ![p] = "pull_lock"]
                    /\ UNCHANGED result
               ELSE /\ result' = [result EXCEPT ![p] = Skipped(branch)]
                    /\ pc' = [pc EXCEPT ![p] = "ret"]
    /\ UNCHANGED <<envVars, local, local_mtime, remote, engVars, watchVars,
                   snap, gg_was, checked, poll_meta, last_seen>>

\* ------------------------------------------------------------------ poller
\* interval.tick(); remote_meta(); pull when meta.last_modified > last_seen
PollMeta ==
    /\ pc["poller"] = "sleep"
    /\ FolderRemoteMeta(remote).tag = "Ok"
    /\ FolderRemoteMeta(remote).val.last_modified > last_seen
    /\ poll_meta' = Some(FolderRemoteMeta(remote).val)
    /\ pc' = [pc EXCEPT !["poller"] = "pull_lock"]
    /\ result' = [result EXCEPT !["poller"] = NoResult]
    /\ checked' = [checked EXCEPT !["poller"] = FALSE]
    /\ UNCHANGED <<envVars, fsVars, engVars, watchVars, snap, gg_was, sync_st, last_seen>>

\* A poller that records last_seen whatever pull_from_remote returned.
PollFinish_records_errors ==
    /\ pc["poller"] = "ret"
    /\ last_seen' = poll_meta[1].last_modified
    /\ poll_meta' = None
    /\ pc' = [pc EXCEPT !["poller"] = "sleep"]
    /\ result' = [result EXCEPT !["poller"] = NoResult]
    /\ gg_was' = [gg_was EXCEPT !["poller"] = FALSE]
    /\ checked' = [checked EXCEPT !["poller"] = FALSE]
    /\ UNCHANGED <<envVars, fsVars, engVars, watchVars, snap, sync_st>>

\* match poll_engine.pull_from_remote(): Ok(_) records last_seen, Err does not
PollFinish ==
    /\ pc["poller"] = "ret"
    /\ last_seen' = IF result["poller"][1] = "Err" THEN last_seen
                    ELSE poll_meta[1].last_modified
    /\ poll_meta' = None
    /\ pc' = [pc EXCEPT !["poller"] = "sleep"]
    /\ result' = [result EXCEPT !["poller"] = NoResult]
    /\ gg_was' = [gg_was EXCEPT !["poller"] = FALSE]
    /\ checked' = [checked EXCEPT !["poller"] = FALSE]
    /\ UNCHANGED <<envVars, fsVars, engVars, watchVars, snap, sync_st>>

\* ---------------------------------------------------------------- commands
StartCommand(first) ==
    /\ pc["user"] = "idle"
    /\ pc' = [pc EXCEPT !["user"] = first]
    /\ result' = [result EXCEPT !["user"] = NoResult]
    /\ checked' = [checked EXCEPT !["user"] = FALSE]
    /\ UNCHANGED <<envVars, fsVars, engVars, watchVars,
                   snap, gg_was, sync_st, poll_meta, last_seen>>

\* sync_now, push_now, pull_now
UserSyncNow == StartCommand("sync_probe")
UserPushNow == StartCommand("push_lock")
UserPullNow == StartCommand("pull_lock")

\* restore_backup(backup_name): backup_dir.join(name) must exist, then
\* BackupManager::restore_backup copies it into steelseries_db_path.
\* i = 0 is a name with no directory; fail is an fs::copy error.
UserRestore(i, fail) ==
    /\ pc["user"] = "idle"
    /\ i \in 0..Len(backups)
    /\ checked' = [checked EXCEPT !["user"] = FALSE]
    /\ pc' = [pc EXCEPT !["user"] = "ret"]
    /\ IF i = 0 \/ fail
       THEN /\ result' = [result EXCEPT !["user"] = Err("Restore")]
            /\ UNCHANGED <<local, local_mtime, chan>>
       ELSE /\ ~(locked /\ backups[i].files.db # None)
            /\ result' = [result EXCEPT !["user"] = <<"Restored">>]
            /\ local' = restore_backup(backups[i].files, local)
            /\ IF backups[i].files = NoFiles
               THEN UNCHANGED <<local_mtime, chan>>
               ELSE /\ chan' = Post("restore")
                    /\ local_mtime' = IF backups[i].files.db # None THEN now ELSE local_mtime
    /\ UNCHANGED <<envVars, remote, backups, engVars, watching, last_event, burst,
                   snap, gg_was, sync_st, poll_meta, last_seen>>

\* The command returns its rendering of the result.
UserFinish ==
    /\ pc["user"] = "ret"
    /\ pc' = [pc EXCEPT !["user"] = "idle"]
    /\ sync_st' = None
    /\ result' = [result EXCEPT !["user"] = NoResult]
    /\ gg_was' = [gg_was EXCEPT !["user"] = FALSE]
    /\ checked' = [checked EXCEPT !["user"] = FALSE]
    /\ UNCHANGED <<envVars, fsVars, engVars, watchVars, snap, poll_meta, last_seen>>

\* ---------------------------------------------------------- specification
Environment ==
    \/ Tick
    \/ EngineStart
    \/ EngineStop
    \/ EngineLock
    \/ \E t \in EngineTriples : EngineWrite(t)
    \/ \E s \in OtherSnapshots : OtherDevicePush(s)

Watcher ==
    \/ WatcherRecv
    \/ WatcherTimeout
    \/ WatcherCallback
    \/ WatcherFinish

PushOp(p) ==
    \/ PushLock(p)
    \/ PushCheck(p)
    \/ PushRead(p)
    \/ \E fail \in BOOLEAN : PushSend(p, fail)

PullOp(p) ==
    \/ PullLock(p)
    \/ PullCheck(p)
    \/ \E fail \in BOOLEAN : PullFetch(p, fail)
    \/ \E o \in {"ok", "mkdir", "copy"} : PullBackup(p, o)
    \/ PullStore(p)
    \/ \E o \in {"ok", "dir", "db", "shm", "wal"} : PullWrite(p, o)

SyncOp(p) ==
    \/ \E fail \in BOOLEAN : SyncProbe(p, fail)
    \/ \E o \in {"ok", "mkdir", "copy"} : SyncDecide(p, o)

Poller ==
    \/ PollMeta
    \/ PollFinish

User ==
    \/ UserSyncNow
    \/ UserPushNow
    \/ UserPullNow
    \/ \E i \in 0..Len(backups), fail \in BOOLEAN : UserRestore(i, fail)
    \/ UserFinish

\* The commands against the Engine, the other devices and the clock; the
\* watcher thread has ended.
Next ==
    \/ Environment
    \/ User
    \/ PushOp("user")
    \/ PullOp("user")
    \/ SyncOp("user")

Spec == Init /\ [][Next]_vars

\* The watcher thread and the poller against the Engine and the other devices,
\* within one tick of the wall clock.
NextWatch ==
    \/ \E t \in EngineTriples : EngineWrite(t)
    \/ \E s \in OtherSnapshots : OtherDevicePush(s)
    \/ Watcher
    \/ PushOp("watcher")
    \/ Poller
    \/ PullOp("poller")

SpecWatch == InitWatch /\ [][NextWatch]_vars

\* The watcher thread alone with the Engine: the debounce loop and the
\* callback it runs to completion before it receives again.  The thread is
\* scheduled, so each of its steps is taken if it stays possible; the Engine
\* writes when it likes.
NextDebounce ==
    \/ EngineStart
    \/ EngineStop
    \/ EngineLock
    \/ \E t \in EngineTriples : EngineWrite(t)
    \/ Watcher
    \/ PushOp("watcher")

SpecDebounce ==
    InitWatch /\ [][NextDebounce]_vars /\ WF_vars(Watcher) /\ WF_vars(PushOp("watcher"))

\* pull_now against a folder whose database.db is any of HeaderBuffers.
NextHeader ==
    \/ \E s \in HeaderSnapshots : OtherDevicePush(s)
    \/ UserPullNow
    \/ PullOp("user")
    \/ UserFinish

SpecHeader == Init /\ [][NextHeader]_vars

\* The watcher thread fed by the file-system notifications themselves.
NextEvent ==
    \/ \E event \in Events : NotifyEvent(event)
    \/ Watcher
    \/ PushOp("watcher")

SpecEvent == InitWatch /\ [][NextEvent]_vars

\* push_now and pull_now against the poller's pull, contending for the
\* safety guard.  tokio's Mutex hands the guard to its waiters in turn, and
\* the holder runs its checks without awaiting anything.
NextLock ==
    \/ EngineLock
    \/ \E s \in { x \in OtherSnapshots : x.db_wal = None } : OtherDevicePush(s)
    \/ UserPushNow
    \/ UserPullNow
    \/ UserFinish
    \/ PushOp("user")
    \/ PullOp("user")
    \/ Poller
    \/ PullOp("poller")

\* Retention keeps one backup; the local directory is empty or holds the
\* Engine's database.db without sidecars.
InitLock == Init /\ max_backups = MaxBackups /\ local.shm = None

SpecLock ==
    /\ InitLock
    /\ [][NextLock]_vars
    /\ \A p \in {"user", "poller"} :
          /\ SF_vars(PushLock(p)) /\ SF_vars(PullLock(p))
          /\ WF_vars(PushCheck(p)) /\ WF_vars(PullCheck(p))

\* pull_now against the poller's pull, create_backup taken one file-system
\* call at a time.
RacePullOp(p) ==
    \/ PullLock(p)
    \/ PullCheck(p)
    \/ \E fail \in BOOLEAN : PullFetch(p, fail)
    \/ \E fail \in BOOLEAN : BackupMkdir(p, fail)
    \/ BackupCopy(p)
    \/ BackupPrune(p)
    \/ PullStore(p)
    \/ \E o \in {"ok", "dir", "db", "shm", "wal"} : PullWrite(p, o)

NextBackupRace ==
    \/ EngineLock
    \/ \E s \in OtherSnapshots : OtherDevicePush(s)
    \/ UserPullNow
    \/ UserFinish
    \/ RacePullOp("user")
    \/ Poller
    \/ RacePullOp("poller")

SpecBackupRace == Init /\ [][NextBackupRace]_vars

\* The poller alone, over time: other devices push, the Engine runs, locks
\* and writes, the clock advances.
NextPoller ==
    \/ Environment
    \/ Poller
    \/ PullOp("poller")

SpecPoller == Init /\ [][NextPoller]_vars

\* The watcher thread, scheduled as in SpecDebounce, with the poller pulling
\* what another device pushes while the running Engine writes.
InitSuppress == InitWatch /\ gg_running /\ max_backups = MaxBackups /\ local.shm = None

NextSuppress ==
    \/ \E t \in { x \in EngineTriples : x.shm = None } : EngineWrite(t)
    \/ \E s \in { x \in OtherSnapshots : x.db_wal = None } : OtherDevicePush(s)
    \/ Watcher
    \/ PushOp("watcher")
    \/ Poller
    \/ PullOp("poller")

SpecSuppress ==
    /\ InitSuppress
    /\ [][NextSuppress]_vars
    /\ WF_vars(Watcher) /\ WF_vars(PushOp("watcher"))

\* push_now and the poller's pull against each other and another device,
\* with the Folder provider's calls taken one file at a time.
FolderPushOp(p) ==
    \/ PushLock(p)
    \/ PushCheck(p)
    \/ PushRead(p)
    \/ \E fail \in BOOLEAN : FolderPushDb(p, fail)
    \/ \E fail \in BOOLEAN : FolderPushShm(p, fail)
    \/ \E fail \in BOOLEAN : FolderPushWal(p, fail)
    \/ \E fail \in BOOLEAN : FolderPushMeta(p, fail)

FolderPullOp(p) ==
    \/ PullLock(p)
    \/ PullCheck(p)
    \/ FolderPullDb(p)
    \/ FolderPullShm(p)
    \/ FolderPullWal(p)
    \/ FolderPullMeta(p)
    \/ \E o \in {"ok", "mkdir", "copy"} : PullBackup(p, o)
    \/ PullStore(p)
    \/ \E o \in {"ok", "dir", "db", "shm", "wal"} : PullWrite(p, o)

NextFolder ==
    \/ \E s \in OtherSnapshots : OtherDevicePush(s)
    \/ UserPushNow
    \/ UserFinish
    \/ FolderPushOp("user")
    \/ Poller
    \/ FolderPullOp("poller")

SpecFolder == Init /\ [][NextFolder]_vars

\* create_backup called on a directory that holds any of DirNames, into a
\* backup directory that is new or was made by a create_backup of the same
\* label and second.
InitBackup ==
    /\ Startup(FALSE)
    /\ gg_running = FALSE /\ max_backups = MaxBackups /\ local = NoFiles
    /\ source_dir \in [DirNames -> {None, Some(FileNow)}]
    /\ backup_path \in {EmptyDir, [EmptyDir EXCEPT ![DATABASE_DB_WAL] = Some(FileBefore)]}

NextBackup ==
    \/ \E done \in SUBSET DirNames : CreateBackupCopy(done)
    \/ \E n \in DirNames, c \in {None, Some(FileNow)} : SourceWrite(n, c)

SpecBackup == InitBackup /\ [][NextBackup]_vars

\* ================================================================== claims
PushStates == {"push_lock", "push_check", "push_read", "push_send"}

\* A step in which caller p writes the local directory.
LocalWriteBy(p) ==
    /\ local' # local
    /\ pc[p] # pc'[p]
    /\ pc'[p] = "ret"

\* C1: the watcher callback that fires for a burst holding the events of a
\* pull's write of the local directory never drives push_to_remote.
C1_PullBurstNeverPushed ==
    (pc["watcher"] \in PushStates) => ("pull" \notin burst)

\* C2: when pull_from_remote returns Pulled the flag is set, so that the next
\* should_suppress_push returns true (and, having cleared it, later calls
\* return false until the next pull).
C2_PulledLeavesFlagSet ==
    [][\A p \in Procs :
          (pc[p] = "pull_write" /\ IsPulled(result'[p])) => pull_in_progress']_vars

\* C3: a pull attempted while an Engine process runs ends as a skip: no pull
\* that found the Engine running returns Pulled.
C3_NoPullWhileEngineRuns ==
    \A p \in Procs : IsPulled(result[p]) => ~result[p][3]

\* C4: every operation of the program that writes the local directory has
\* run a safety-guard check before its first write.
C4_WriteAfterSafetyCheck ==
    [][\A p \in Procs : LocalWriteBy(p) => checked[p]]_vars

\* The first 16 bytes of d are the SQLite magic.
HasMagic(d) == Len(d) >= 16 /\ SubSeq(d, 1, 16) = SQLITE_MAGIC

\* A step taken by caller p.
StepOf(p) == pc'[p] # pc[p]

NewestBackup(bk) == list_backups(bk)[1]

C6_InvalidRemoteSkipped ==
    [][\A p \in Procs :
          /\ (pc[p] \in {"pull_lock", "pull_check", "pull_fetch"} /\ StepOf(p))
                => /\ local' = local
                   /\ backups' = backups
                   /\ pull_in_progress' = pull_in_progress
          /\ (/\ pc[p] = "pull_fetch" /\ StepOf(p)
              /\ result'[p] # Err("Provider")
              /\ FolderPull(remote).tag = "Ok"
              /\ ~(Len(FolderPull(remote).val.db) > 16 /\ HasMagic(FolderPull(remote).val.db)))
                => /\ result'[p] = Skipped("InvalidRemoteFile")
                   /\ pc'[p] = "ret"]_vars

\* A pull has been skipped for an invalid remote file next to a local database.
C6_Witness ==
    /\ pc["user"] = "ret"
    /\ result["user"] = Skipped("InvalidRemoteFile")
    /\ local.db # None

\* C7 (as stated): in every pull_from_remote that finds a local database.db,
\* when the local triple is written a pre-pull backup is in the backup
\* directory and holds the content that the write replaces.
C7_BackupHoldsReplacedContent ==
    [][\A p \in Procs :
          (pc[p] = "pull_write" /\ StepOf(p) /\ local.db # None)
            => \E i \in 1..Len(backups) :
                  backups[i].label = "pre-pull" /\ backups[i].files = local]_vars

\* C7 (amended): a pull writes the local triple only in its last step, after
\* its create_backup has returned; when it finds a local database.db, with
\* max_backups >= 1 and no pre-pull backup of the same second in place, the
\* backup is the newest one and holds the local triple as it is copied; the
\* steps of the pull that follow (the store of the flag, the write, whether
\* or not it fails partway) leave the backup directory as it is.
C7_BackupBeforeWrite ==
    [][\A p \in Procs :
          /\ (pc[p] \in {"pull_lock", "pull_check", "pull_fetch", "pull_backup", "pull_store"}
                /\ StepOf(p))
                => local' = local
          /\ (/\ pc[p] = "pull_backup" /\ pc'[p] = "pull_store"
              /\ local.db # None
              /\ max_backups >= 1
              /\ BackupIndex(backups, "pre-pull", now) = {})
                => /\ backups' # <<>>
                   /\ NewestBackup(backups') = [label |-> "pre-pull", ts |-> now, files |-> local]
          /\ (pc[p] \in {"pull_store", "pull_write"} /\ StepOf(p))
                => backups' = backups]_vars

\* The write of a pull has failed after database.db and before the -wal
\* sidecar; the pre-pull backup holds the Engine's database it replaced.
C7_Witness ==
    /\ pc["user"] = "ret"
    /\ result["user"] = Err("Io")
    /\ local.db = Some(OtherDb)
    /\ local.wal = None
    /\ remote.wal # None
    /\ backups # <<>>
    /\ NewestBackup(backups).label = "pre-pull"
    /\ NewestBackup(backups).files.db = Some(EngineDb)

\* C8 (as stated): after any pull_from_remote that returns Pulled the number
\* of backups is at most max_backups and the newest backup, the first entry
\* of list_backups, carries the pre-pull label.
C8_PulledLeavesPrePullNewest ==
    \A p \in Procs :
        IsPulled(result[p])
          => /\ Len(backups) <= max_backups
             /\ backups # <<>>
             /\ NewestBackup(backups).label = "pre-pull"

\* C8 (amended): when the create_backup of a pull_from_remote that finds a
\* local database.db returns, the number of backups is at most max_backups,
\* and with max_backups >= 1 and no pre-pull backup of the same second in
\* place the newest backup carries the pre-pull label; the step that returns
\* Pulled leaves the backup directory as it is.
C8_RetentionAtPrePullBackup ==
    [][\A p \in Procs :
          /\ (pc[p] = "pull_backup" /\ pc'[p] = "pull_store" /\ local.db # None)
                => /\ Len(backups') <= max_backups
                   /\ (max_backups >= 1 /\ BackupIndex(backups, "pre-pull", now) = {})
                         => /\ backups' # <<>>
                            /\ NewestBackup(backups').label = "pre-pull"
          /\ (pc[p] = "pull_write" /\ IsPulled(result'[p]))
                => backups' = backups]_vars

\* A pull has returned Pulled with the backup directory full and its pre-pull
\* backup the newest.
C8_Witness ==
    /\ IsPulled(result["user"])
    /\ max_backups >= 1
    /\ Len(backups) = max_backups
    /\ NewestBackup(backups).label = "pre-pull"
    /\ NewestBackup(backups).ts = now

\* sync has both sides in hand and finds the local modification time
\* strictly greater than the remote last_modified.
LocalNewer(p) ==
    /\ pc[p] = "sync_decide"
    /\ sync_st[1].local_exists
    /\ sync_st[1].remote_meta # None
    /\ local.db # None
    /\ local_mtime > sync_st[1].remote_meta[1].last_modified

\* C9 (as stated): after any sync that returns successfully having chosen the
\* push branch because the local modification time was strictly greater than
\* the remote last_modified, a backup with the pre-push label exists.
C9_PrePushBackupExists ==
    (/\ pc["user"] = "ret"
     /\ sync_st # None
     /\ sync_st[1].branch = "backup_push"
     /\ result["user"] = Pushed)
      => \E i \in 1..Len(backups) : backups[i].label = "pre-push"

\* C9 (amended): when sync takes the push branch because the local
\* modification time is strictly greater than the remote last_modified, its
\* create_backup has returned before push_to_remote starts; with
\* max_backups >= 1 and no pre-push backup of the same second in place, the
\* newest backup then carries the pre-push label and holds the local triple,
\* and the push that follows leaves the backup directory as it is.
C9_PrePushBackupAtPush ==
    [][\A p \in Procs :
          /\ (LocalNewer(p) /\ pc'[p] = "push_lock"
                /\ max_backups >= 1
                /\ BackupIndex(backups, "pre-push", now) = {})
                => /\ backups' # <<>>
                   /\ NewestBackup(backups') = [label |-> "pre-push", ts |-> now, files |-> local]
          /\ (pc[p] \in PushStates /\ StepOf(p))
                => backups' = backups]_vars

\* sync has pushed a newer local database and its pre-push backup is the
\* newest in the backup directory.
C9_Witness ==
    /\ pc["user"] = "ret"
    /\ sync_st # None
    /\ sync_st[1].branch = "backup_push"
    /\ result["user"] = Pushed
    /\ backups # <<>>
    /\ NewestBackup(backups).label = "pre-push"

\* C10: sync chooses its action from (local database.db exists, remote
\* metadata present): both and local strictly newer gives the pre-push backup
\* and then push; both and local strictly older gives pull; both and equal
\* gives Skipped(AlreadyInSync) with local, remote, backups and flag
\* unchanged; local only gives push; remote only gives pull; neither gives
\* Skipped(NoLocalConfig) with nothing changed.  (A failure of the backup's
\* I/O ends the first case in an error.)
C10_SyncCaseAnalysis ==
    [][\A p \in Procs :
          (pc[p] = "sync_decide" /\ StepOf(p) /\ result'[p] # Err("Io"))
            => LET le == sync_st[1].local_exists
                   rm == sync_st[1].remote_meta
                   Quiet == /\ local' = local /\ remote' = remote
                            /\ backups' = backups
                            /\ pull_in_progress' = pull_in_progress
               IN
               /\ (le /\ rm # None /\ local_mtime > rm[1].last_modified)
                     => /\ pc'[p] = "push_lock"
                        /\ backups' = create_backup(backups, local, "pre-push", now,
                                                    max_backups, "ok").dir
               /\ (le /\ rm # None /\ local_mtime < rm[1].last_modified)
                     => pc'[p] = "pull_lock" /\ Quiet
               /\ (le /\ rm # None /\ local_mtime = rm[1].last_modified)
                     => /\ pc'[p] = "ret" /\ Quiet
                        /\ result'[p] = Skipped("AlreadyInSync")
               /\ (le /\ rm = None) => pc'[p] = "push_lock" /\ Quiet
               /\ (~le /\ rm # None) => pc'[p] = "pull_lock" /\ Quiet
               /\ (~le /\ rm = None)
                     => /\ pc'[p] = "ret" /\ Quiet
                        /\ result'[p] = Skipped("NoLocalConfig")]_vars

\* sync has found both sides with equal timestamps and skipped.
C10_Witness ==
    /\ pc["user"] = "ret"
    /\ result["user"] = Skipped("AlreadyInSync")
    /\ sync_st # None
    /\ sync_st[1].local_exists
    /\ sync_st[1].remote_meta # None
    /\ local_mtime = sync_st[1].remote_meta[1].last_modified
    /\ now > 0

\* C11: when the provider reports NotFound on pull (no database.db or no
\* sync_meta.json in the remote folder), pull_from_remote returns the success
\* value Skipped(NoRemoteConfig), and none of its steps up to there changes
\* the local triple, the backup directory or the suppression flag.
C11_NotFoundSkipped ==
    [][\A p \in Procs :
          (/\ pc[p] = "pull_fetch" /\ StepOf(p)
           /\ result'[p] # Err("Provider")
           /\ (remote.db = None \/ remote.meta = None))
            => /\ result'[p] = Skipped("NoRemoteConfig")
               /\ pc'[p] = "ret"
               /\ local' = local
               /\ backups' = backups
               /\ pull_in_progress' = pull_in_progress]_vars

\* A pull has been skipped for an empty remote next to a local database.
C11_Witness ==
    /\ pc["user"] = "ret"
    /\ result["user"] = Skipped("NoRemoteConfig")
    /\ remote = NoRemote
    /\ local.db # None

\* C12: a provider error other than NotFound returned by pull, remote_meta or
\* push makes pull_from_remote, sync or push_to_remote return an error; when
\* it comes from pull or remote_meta the local triple, the backup directory
\* and the suppression flag are unchanged.
C12_ProviderErrorIsFatal ==
    [][\A p \in Procs :
          LET Fatal == result'[p] = <<"Err", "Provider">> /\ pc'[p] = "ret"
              Quiet == /\ local' = local
                       /\ backups' = backups
                       /\ pull_in_progress' = pull_in_progress
          IN
          /\ PullFetch(p, TRUE) => (Fatal /\ Quiet)
          /\ SyncProbe(p, TRUE) => (Fatal /\ Quiet)
          /\ PushSend(p, TRUE) => Fatal]_vars

\* A command has returned a provider error with a local database and a
\* remote snapshot in place.
C12_Witness ==
    /\ pc["user"] = "ret"
    /\ result["user"] = <<"Err", "Provider">>
    /\ local.db # None
    /\ remote.db # None

\* C13: push_to_remote returns Skipped(NoLocalConfig) when its check finds
\* database.db absent and Skipped(FileLocked) when it finds it present but not
\* openable, in both cases without calling the provider; it is never skipped
\* because the Engine is running; and none of its steps changes the local
\* triple, the backups or the suppression flag.
C13_PushSkipsAndFrame ==
    [][\A p \in Procs :
          /\ (pc[p] = "push_check" /\ StepOf(p))
                => /\ remote' = remote
                   /\ (local.db = None)
                         => (result'[p] = Skipped("NoLocalConfig") /\ pc'[p] = "ret")
                   /\ (local.db # None /\ locked)
                         => (result'[p] = Skipped("FileLocked") /\ pc'[p] = "ret")
                   /\ (local.db # None /\ ~locked)
                         => (pc'[p] = "push_read" /\ result'[p] = result[p])
          /\ (pc[p] \in PushStates /\ StepOf(p))
                => /\ local' = local
                   /\ backups' = backups
                   /\ pull_in_progress' = pull_in_progress
                   /\ (remote' # remote => pc[p] = "push_send")
                   /\ (result'[p] # result[p] /\ result'[p][1] = "Skipped")
                         => pc[p] = "push_check"]_vars

\* A push has been skipped for a database the running Engine holds locked.
C13_Witness ==
    /\ pc["user"] = "ret"
    /\ result["user"] = Skipped("FileLocked")
    /\ ~gg_was["user"]
    /\ gg_running
    /\ locked

\* C14: a pull that runs concurrently with a push returns the complete
\* previous snapshot or the complete new one.  Until a pull has written the
\* local directory this device pushes the Engine's database only and other
\* devices never do, so the database and the metadata of a snapshot pulled
\* whole name the same device.
C14_PullSeesOneSnapshot ==
    (pc["poller"] = "pull_backup" /\ local.db # Some(OtherDb))
      => LET s == snap["poller"][1] IN
         (s.db = EngineDb) <=> (s.meta.device_name = ThisDevice)

\* C15: whatever the remote folder held before, a pull that follows a
\* successful push of snapshot S returns S's database, S's sidecars (absent
\* in S means absent in the result) and this device's name in the metadata.
C15_PushPullRoundTrip ==
    [][\A p \in Procs :
          PushSend(p, FALSE)
            => LET S == snap[p][1]
                   got == FolderPull(remote')
               IN /\ got.tag = "Ok"
                  /\ got.val.db = S.db
                  /\ got.val.db_shm = S.db_shm
                  /\ got.val.db_wal = S.db_wal
                  /\ got.val.meta.device_name = S.meta.device_name]_vars

\* A step in which caller p's create_backup(label) returns Ok.
BackupReturned(p, label) ==
    IF label = "pre-pull"
    THEN pc[p] = "pull_backup" /\ local.db # None /\ pc'[p] = "pull_store"
    ELSE LocalNewer(p) /\ pc'[p] = "push_lock"

\* The first n entries of listing l.
NewestOf(l, n) == SubSeq(l, 1, IF n < Len(l) THEN n ELSE Len(l))

\* C16: when create_backup returns with max_backups = N, list_backups has
\* at most N entries, and they are the N newest by created time of the
\* directories that existed before pruning, the new backup's among them.
C16_RetentionKeepsNewest ==
    [][\A p \in Procs : \A label \in {"pre-pull", "pre-push"} :
          BackupReturned(p, label)
            => LET before == CopyBackup(backups, local, label, now) IN
               /\ BackupIndex(before, label, now) # {}
               /\ Len(list_backups(backups')) <= max_backups
               /\ list_backups(backups') = NewestOf(list_backups(before), max_backups)]_vars

\* A backup has just been created at the second tick with max_backups = 1
\* and is the only one listed.
C16_Witness ==
    /\ pc["user"] = "pull_store"
    /\ local.db # None
    /\ max_backups = MaxBackups
    /\ now = MaxTime
    /\ Len(backups) = MaxBackups
    /\ backups[1].label = "pre-pull" /\ backups[1].ts = now

\* C17: after any number of create_backup calls list_backups returns every
\* backup sub-directory once, ordered by created time non-increasing, and
\* the empty list when there is no backup directory.
C17_ListNewestFirst ==
    LET l == list_backups(backups) IN
    /\ Len(l) = Len(backups)
    /\ { l[i] : i \in 1..Len(l) } = { backups[i] : i \in 1..Len(backups) }
    /\ \A i, j \in 1..Len(l) : i < j => created(l[i]) >= created(l[j])
    /\ (backups = <<>>) => (l = <<>>)

\* Two backup directories made in different seconds are listed.
C17_Witness ==
    /\ Len(backups) >= 2
    /\ created(list_backups(backups)[1]) > created(list_backups(backups)[2])

\* The names of DirNames that start with database.db.
DatabaseFiles == {DATABASE_DB, DATABASE_DB_WAL, DATABASE_DB_BAK}

C19_RestoreUndoesMutation ==
    [][\A i \in 1..Len(backups) :
          (UserRestore(i, FALSE) /\ backups[i].files.db # None)
            => local' = backups[i].files]_vars

\* C20: on_change is never called during an active burst.  last_event holds
\* the number of whole recv_timeout periods that have passed with no message
\* since the loop last received one: a receive sets it to zero, only an empty
\* period adds one to it, and every call of on_change happens with the channel
\* empty once DebounceTicks such periods have passed, after at least one
\* message received since the previous call.
C20_NoCallDuringBurst ==
    [][/\ (chan # {} /\ chan' = {}) => last_event' = Some(0)
       /\ (last_event # None /\ last_event' # None /\ last_event' # last_event /\ last_event'[1] # 0)
             => (chan = {} /\ chan' = {} /\ last_event'[1] = last_event[1] + 1)
       /\ (last_event = None /\ last_event' # None) => (chan # {} /\ last_event' = Some(0))
       /\ (pc["watcher"] # "on_change" /\ pc'["watcher"] = "on_change")
             => /\ chan = {}
                /\ last_event # None
                /\ last_event[1] + 1 >= DebounceTicks
                /\ burst # {}
                /\ last_event' = None]_vars

\* on_change is being called for a burst of Engine writes, and the next
\* write's event is already in the channel.
C20_Witness ==
    /\ pc["watcher"] = "on_change"
    /\ burst = {"engine"}
    /\ last_event = None
    /\ chan # {}

\* C21: every burst of qualifying events followed by quiet gets on_change,
\* once.  A message sent to the channel, during a callback or not, is
\* received; once a message has been received on_change is called unless
\* another message arrives first; and between two calls of on_change the
\* loop has received a message.
C21_OneCallPerBurst ==
    /\ (chan # {}) ~> (chan = {})
    /\ (pc["watcher"] = "wait" /\ burst # {}) ~> (pc["watcher"] = "on_change" \/ chan # {})
    /\ [][/\ (pc["watcher"] # "on_change" /\ pc'["watcher"] = "on_change")
                => (burst # {} /\ last_event' = None)
          /\ (last_event = None /\ last_event' # None) => (chan # {} /\ chan' = {})
          /\ (pc'["watcher"] = "on_change") => last_event' = None]_vars

\* A write's event arrives while the push of the previous callback is
\* under way.
C21_Witness ==
    /\ pc["watcher"] \in PushStates
    /\ last_event = None
    /\ chan # {}

\* A buffer longer than 16 bytes whose first 16 bytes are the magic.
LongerThanMagicWithMagic(b) == Len(b) > 16 /\ HasMagic(b)

\* C22: validate_sqlite_header(b) is true exactly when b is longer than 16
\* bytes and starts with the 16 bytes of the magic; the magic alone and the
\* 15 bytes without the NUL are invalid; and a pull goes on past the header
\* check exactly with such a buffer.
C22_HeaderValidation ==
    /\ [](/\ \A b \in HeaderBuffers :
                validate_sqlite_header(b) <=> LongerThanMagicWithMagic(b)
          /\ ~validate_sqlite_header(SQLITE_MAGIC)
          /\ ~validate_sqlite_header(MagicWithoutNul)
          /\ remote.db # None
                => (validate_sqlite_header(remote.db[1])
                      <=> LongerThanMagicWithMagic(remote.db[1])))
    /\ [][\A p \in Procs :
            (/\ pc[p] = "pull_fetch" /\ StepOf(p)
             /\ remote.db # None /\ remote.meta # None
             /\ result'[p] # <<"Err", "Provider">>)
              => /\ (pc'[p] = "pull_backup") <=> LongerThanMagicWithMagic(remote.db[1])
                 /\ (result'[p] = Skipped("InvalidRemoteFile"))
                       <=> ~LongerThanMagicWithMagic(remote.db[1])]_vars

\* A pull has skipped a remote database.db that is the 16 bytes of the
\* magic and nothing else.
C22_Witness ==
    /\ pc["user"] = "ret"
    /\ result["user"] = Skipped("InvalidRemoteFile")
    /\ remote.db = Some(SQLITE_MAGIC)

\* An event of kind Modify or Create with a path whose file name is one of
\* the names that start with database.db.
Qualifies(event) ==
    /\ event.kind = "Modify" \/ event.kind = "Create"
    /\ \E i \in 1..Len(event.paths) :
          \E n \in DatabaseFiles : event.paths[i] = <<n>>

\* C23: is_db_event(e) is true exactly when the kind of e is Modify or Create
\* and a path of e has a file name starting with database.db; an event sends
\* a message to the debounce loop exactly when it is such an event, so the
\* loop never holds or receives a message of a Remove event or of an event
\* on other files.
C23_OnlyDbEventsReachLoop ==
    /\ [](/\ \A event \in Events : is_db_event(event) <=> Qualifies(event)
          /\ (chan \cup burst) \subseteq {"Modify", "Create"})
    /\ [][\A event \in Events :
            NotifyEvent(event)
              => /\ Qualifies(event) => chan' = chan \cup {event.kind}
                 /\ ~Qualifies(event) => chan' = chan]_vars

\* The loop has received the message of a Create event, and the callback
\* it led to is running.
C23_Witness ==
    /\ "Create" \in burst
    /\ pc["watcher"] = "on_change"

\* C24: is_safe_to_write returns GGRunning whenever an Engine process is
\* live; otherwise Safe when database.db is absent, FileLocked when it exists
\* and cannot be opened, Safe when it can be opened.
C24_SafeToWriteCases ==
    is_safe_to_write(gg_running, local, locked) =
        IF gg_running THEN "GGRunning"
        ELSE IF local.db = None THEN "Safe"
        ELSE IF locked THEN "FileLocked"
        ELSE "Safe"

\* The positions at which a caller holds the guard: between lock() and the
\* end of its check.
CheckStates == {"push_check", "pull_check"}

\* C25: the safety guard is held by at most one operation, and only across
\* the process scan and the file check: a caller holds it exactly while it
\* is at its check, every step that calls the provider, reads or writes the
\* local triple or makes a backup is taken without it, every return path has
\* released it, and a caller waiting for it gets it.
C25_GuardOnlyAcrossCheck ==
    /\ [](/\ \A p \in Procs : (safety = p) <=> (pc[p] \in CheckStates)
          /\ Cardinality({ p \in Procs : pc[p] \in CheckStates }) <= 1
          /\ \A p \in Procs : pc[p] = "ret" => safety # p)
    /\ [][\A p \in Procs :
            (StepOf(p) /\ pc[p] \in {"push_read", "push_send", "pull_fetch",
                                       "pull_backup", "pull_store", "pull_write"})
              => (safety # p /\ safety' # p)]_vars
    /\ \A p \in {"user", "poller"} :
          /\ (pc[p] \in {"push_lock", "pull_lock"}) ~> (pc[p] \in CheckStates)
          /\ (safety = p) ~> (safety # p)

\* The poller waits for the guard while pull_now holds it for its check.
C25_Witness ==
    /\ safety = "user"
    /\ pc["user"] = "pull_check"
    /\ pc["poller"] = "pull_lock"

\* The positions from which a caller's next step calls the provider, looks
\* at or writes the local directory, or creates a backup.
IoStates == {"sync_probe", "sync_decide", "push_read", "push_send",
             "pull_fetch", "pull_backup", "pull_store", "pull_write"}

\* C26: every engine operation (push_to_remote, pull_from_remote and sync)
\* has acquired the safety guard and completed its safety check before it
\* performs any provider call, local file access or backup creation.
C26_CheckBeforeAnyIo ==
    [][\A p \in Procs : (StepOf(p) /\ pc[p] \in IoStates) => checked[p]]_vars

\* C27: backup creation is serialized: with pull_now and the poller running
\* at the same time, at most one caller is inside create_backup (between
\* its create_dir_all and its return).
C27_BackupsSerialized ==
    Cardinality({ p \in Procs : pc[p] \in BackupStates }) <= 1

\* The remote metadata is there and is strictly later than last_seen.
RemoteNewerThanSeen ==
    remote.meta # None /\ remote.meta[1].last_modified > last_seen

\* C28: a tick of the poller calls pull_from_remote exactly when remote_meta
\* succeeds with last_modified strictly greater than last_seen; after a
\* Pulled or Skipped result last_seen becomes that last_modified, so no
\* further pull starts until the remote metadata is later again; after an
\* error last_seen is unchanged, so the next tick pulls again.
C28_PollerLastSeen ==
    /\ []((pc["poller"] = "sleep") => (ENABLED PollMeta <=> RemoteNewerThanSeen))
    /\ [][/\ (pc["poller"] = "sleep" /\ pc'["poller"] # "sleep")
               => /\ RemoteNewerThanSeen
                  /\ pc'["poller"] = "pull_lock"
                  /\ poll_meta' = remote.meta
          /\ (pc["poller"] = "ret" /\ pc'["poller"] # "ret")
               => /\ pc'["poller"] = "sleep"
                  /\ result["poller"][1] \in {"Pulled", "Skipped"}
                        => last_seen' = poll_meta[1].last_modified
                  /\ result["poller"][1] = "Err" => last_seen' = last_seen
          /\ (last_seen' # last_seen) => (pc["poller"] = "ret" /\ last_seen' > last_seen)]_vars

\* The poller's pull for metadata of the second tick has returned an error
\* while last_seen has the first tick's time.
C28_Witness ==
    /\ pc["poller"] = "ret"
    /\ result["poller"][1] = "Err"
    /\ last_seen = 0
    /\ poll_meta # None /\ poll_meta[1].last_modified = MaxTime

\* C29: automatic pulls respect last-writer-wins: a pull started by the
\* poller or by sync replaces an existing local database.db only with a
\* snapshot whose last_modified is later than the local file's modification
\* time.
C29_AutoPullLastWriterWins ==
    [][\A p \in Procs :
          (/\ pc[p] = "pull_write" /\ StepOf(p)
           /\ p = "poller" \/ (p = "user" /\ sync_st # None)
           /\ local.db # None
           /\ local'.db # local.db)
            => snap[p][1].meta.last_modified > local_mtime]_vars

\* C30: should_suppress_push returns true only if a pull_from_remote has
\* written a local file since the flag was last cleared.  The events of such
\* a write are in the channel or in the burst the callback is called for
\* (the flag is set before the write, and the callback that takes the events
\* clears it), so a callback that finds the flag set finds a pull's event.
C30_SuppressOnlyAfterPullWrite ==
    [][(/\ pc["watcher"] = "on_change"
        /\ pc'["watcher"] # "on_change"
        /\ pull_in_progress)
          => "pull" \in (burst \cup chan)]_vars

\* C31: every change the Engine makes to the local files is eventually
\* followed by a watcher-triggered push_to_remote that reads it, unless a
\* pull writes the local files after it.  An Engine event in the channel
\* with no pull event beside it belongs to a write later than every pull
\* write; from there the callback starts a push for a burst that holds the
\* Engine's event, or a pull writes.  The Engine is taken to stop writing
\* at some point, so that the debounce window can close.
C31_EngineChangePushed ==
    (<>[][~(\E t \in EngineTriples : EngineWrite(t))]_vars)
      => (("engine" \in chan /\ "pull" \notin chan)
            ~> (\/ pc["watcher"] = "push_lock" /\ "engine" \in burst
                \/ "pull" \in chan))

\* C32: when pull_from_remote returns Pulled, the local triple equals the
\* pulled snapshot: database.db holds the snapshot's db bytes, and each of
\* database.db-shm and database.db-wal holds the snapshot's bytes when the
\* snapshot has it and is absent when the snapshot does not.
C32_PulledLocalEqualsSnapshot ==
    [][\A p \in Procs :
          (pc[p] = "pull_write" /\ StepOf(p) /\ IsPulled(result'[p]))
            => local' = [db  |-> Some(snap[p][1].db),
                         shm |-> snap[p][1].db_shm,
                         wal |-> snap[p][1].db_wal]]_vars

====
